---- MODULE Spec2Model ----
(***************************************************************************)
(* The forum's request handlers (src/src/forum/views.py) as a state        *)
(* machine over the rows they read and write.  Every handler is a chain of *)
(* statements, each an operator from a world (the database and the         *)
(* request's locals) to a world: the first runs the login_required check,  *)
(* the get_object_or_404 load and the permission checks, every later one   *)
(* is one database statement of the handler.  Spec serves one request at a *)
(* time, so the action named after a handler runs its whole chain;         *)
(* SpecConc serves up to MaxInFlight requests at once, whose statements    *)
(* interleave one Step at a time.                                          *)
(***************************************************************************)
EXTENDS Integers, Sequences, FiniteSets, TLC

\* ------------------------------------------------------------- bounds
MaxRequests == 2
MaxInFlight == 2
MaxPosts == 3
MaxTopics == 3

\* ------------------------------------------------------------ fixtures
Anon == "anon"
AuthUsers == {"alice", "bob", "mod"}
Users == AuthUsers \cup {Anon}
Moderators == {"mod"}
ValidEmail == {"alice", "mod"}
ForumIds == {1, 2}
ForumPks == 1..3
RestrictedForums == {2}
GroupMembers == [f \in ForumIds |-> IF f \in RestrictedForums THEN {"mod"} ELSE {}]
TopicIds == 1..MaxTopics
PostIds == 1..MaxPosts
Slots == 1..MaxInFlight
Bodies == {"edited"}
Methods == {"GET", "POST"}

\* ---------------------------------------------------------------- rows
NoTopic ==
    [exists |-> FALSE, forum |-> 0, user |-> Anon, views |-> 0, closed |-> FALSE,
     sticky |-> FALSE, heresy |-> FALSE, send_response |-> FALSE, rating |-> 0]

NoPost ==
    [exists |-> FALSE, topic |-> 0, user |-> Anon, body |-> "", created |-> 0,
     updated |-> 0, updated_by |-> Anon, rating |-> 0]

NewTopic(f, u) == [NoTopic EXCEPT !.exists = TRUE, !.forum = f, !.user = u]

NewPost(t, u, b, at) ==
    [NoPost EXCEPT !.exists = TRUE, !.topic = t, !.user = u, !.body = b, !.created = at]

\* ------------------------------------------- access control predicates
Forum_has_access(f, u) == f \notin RestrictedForums \/ u \in GroupMembers[f]

Forum_can_post(f, u) == Forum_has_access(f, u) /\ u \in ValidEmail

Topic_has_access(t, u) == Forum_has_access(t.forum, u)

Topic_can_post(t, u) == Forum_can_post(t.forum, u) /\ ~t.closed

Topic_can_edit(t, u) == u \in Moderators \/ (u # Anon /\ u = t.user)

Topic_can_delete(t, u) == u \in Moderators \/ (u # Anon /\ u = t.user)

Post_can_edit(p, u) == u \in Moderators \/ (u # Anon /\ u = p.user)

Post_can_delete(p, u) == u \in Moderators \/ (u # Anon /\ u = p.user)

\* --------------------------------------------------------------- state
VARIABLES
    topics,     \* Topic rows by pk
    posts,      \* Post rows by pk
    tvotes,     \* Topic.votes: the users who voted, by topic pk
    pvotes,     \* Post.votes: the users who voted, by post pk
    markers,    \* ReadMarker time by user and topic pk, 0 for none
    clock,      \* the last time now() returned
    nextPost,   \* the pk the next inserted Post gets
    nextTopic,  \* the pk the next inserted Topic gets
    reqs,       \* the requests being served, by worker slot
    last,       \* the last request answered, with its response
    nreq,       \* requests started so far
    workers,    \* how many requests are served at the same time
    viewed,     \* topic_page requests that passed has_access, by topic pk
    onlyVotes   \* every request started so far was a vote

dbvars == <<topics, posts, tvotes, pvotes, markers, clock, nextPost, nextTopic>>

vars == <<topics, posts, tvotes, pvotes, markers, clock, nextPost, nextTopic,
          reqs, last, nreq, workers, viewed, onlyVotes>>

DB == [topics |-> topics, posts |-> posts, tvotes |-> tvotes, pvotes |-> pvotes,
       markers |-> markers, clock |-> clock, nextPost |-> nextPost,
       nextTopic |-> nextTopic]

InitTopics ==
    [t \in TopicIds |-> IF t = 1 THEN NewTopic(1, "alice")
                        ELSE IF t = 2 THEN NewTopic(2, "mod")
                        ELSE NoTopic]

InitPosts ==
    [p \in PostIds |-> IF p = 1 THEN NewPost(1, "alice", "first", 1)
                       ELSE IF p = 2 THEN NewPost(2, "mod", "first", 1)
                       ELSE NoPost]

\* A request: what came in (h, u, kind, pk, method, valid, forum, body), the
\* handler's locals (t, p, voted, idx; cached: post.topic has been fetched),
\* where it stands (pc) and its response (out, rating, voted).
Idle ==
    [h |-> "none", u |-> Anon, kind |-> "none", pk |-> 0, method |-> "GET",
     valid |-> FALSE, forum |-> 0, body |-> "", pc |-> "idle", t |-> NoTopic,
     p |-> NoPost, voted |-> FALSE, idx |-> 0, cached |-> FALSE, out |-> "",
     rating |-> 0]

\* What is kept of an answered request: its response.
Answer(r) == [out |-> r.out, rating |-> r.rating, voted |-> r.voted]

InitWith(w) ==
    /\ topics = InitTopics
    /\ posts = InitPosts
    /\ tvotes = [t \in TopicIds |-> {}]
    /\ pvotes = [p \in PostIds |-> {}]
    /\ markers = [u \in AuthUsers |-> [t \in TopicIds |-> 0]]
    /\ clock = 1
    /\ nextPost = 3
    /\ nextTopic = 3
    /\ reqs = [s \in Slots |-> Idle]
    /\ last = Answer(Idle)
    /\ nreq = 0
    /\ workers = w
    /\ viewed = [t \in TopicIds |-> 0]
    /\ onlyVotes = TRUE

Init == InitWith(1)

InitConc == InitWith(MaxInFlight)

\* ------------------------------------------------------------- worlds
W(db, r) == [db |-> db, r |-> r]

To(w, pc) == [w EXCEPT !.r.pc = pc]

Done(w, out) == [w EXCEPT !.r.pc = "done", !.r.out = out]

\* get_object_or_404 and the request's own fields.
TopicReq(db, h, u, pk) ==
    [Idle EXCEPT !.h = h, !.u = u, !.kind = "topic", !.pk = pk, !.t = db.topics[pk]]

PostReq(db, h, u, pk) ==
    LET post == db.posts[pk]
        topic == IF post.exists THEN db.topics[post.topic] ELSE NoTopic
    IN  [Idle EXCEPT !.h = h, !.u = u, !.kind = "post", !.pk = pk, !.p = post, !.t = topic]

\* Forum rows are never added or deleted.
ForumThere(pk) == pk \in ForumIds

ForumReq(h, u, pk) == [Idle EXCEPT !.h = h, !.u = u, !.kind = "forum", !.pk = pk]

\* Model.save(): the whole row is written from the instance in memory, as an
\* UPDATE of the row with its pk or, when that row is gone, as an INSERT.
SaveTopic(db, pk, row) == [db EXCEPT !.topics[pk] = row]

SavePost(db, pk, row) == [db EXCEPT !.posts[pk] = row]

\* A row that refers to a topic can be written only while the topic is there.
TopicThere(db, pk) == pk \in TopicIds /\ db.topics[pk].exists

\* ---------------------------------------------------------- topic_page
mark_visited_for(db, u, pk) ==
    IF u \in AuthUsers
    THEN [db EXCEPT !.markers[u][pk] = db.clock + 1, !.clock = db.clock + 1]
    ELSE db

topic_page_load(db, u, pk) ==
    LET r == TopicReq(db, "topic_page", u, pk)
    IN  IF ~r.t.exists THEN Done(W(db, r), "notfound")
        ELSE IF ~Topic_has_access(r.t, u) THEN Done(W(db, r), "notfound")
        ELSE To(W(db, r), "tp_update")

\* Topic.objects.filter(pk=pk).update(views=F('views') + 1)
topic_page_update(w) ==
    To([w EXCEPT !.db.topics[w.r.pk].views = IF w.db.topics[w.r.pk].exists THEN @ + 1 ELSE @],
       "tp_render")

topic_page_render(w) ==
    IF w.r.u \in AuthUsers /\ ~TopicThere(w.db, w.r.pk) THEN Done(w, "error")
    ELSE Done([w EXCEPT !.db = mark_visited_for(w.db, w.r.u, w.r.pk)], "page")

\* ---------------------------------------------------------------- vote
VotesIn(db, kind, pk) == IF kind = "topic" THEN db.tvotes[pk] ELSE db.pvotes[pk]

ExistsIn(db, kind, pk) == IF kind = "topic" THEN db.topics[pk].exists ELSE db.posts[pk].exists

RatingOf(vs) == Cardinality(vs)

\* The toggle with its remove branch lost: a vote is only ever added.
ToggleAlwaysAdds(vs, u, existed) == vs \cup {u}

\* if obj.votes.filter(pk=user.pk).exists(): remove, else: add
ToggleVotes(vs, u, existed) == IF existed THEN vs \ {u} ELSE vs \cup {u}

vote_load(db, u, kind, pk) ==
    LET r == IF kind = "topic" THEN TopicReq(db, "vote", u, pk) ELSE PostReq(db, "vote", u, pk)
    IN  IF ~ExistsIn(db, kind, pk) THEN Done(W(db, r), "notfound")
        ELSE IF u \notin AuthUsers THEN Done(W(db, r), "forbidden")
        ELSE IF ~Topic_has_access(r.t, u) THEN Done(W(db, r), "forbidden")
        ELSE To(W(db, r), "vote_exists")

\* obj.votes.filter(pk=user.pk).exists()
vote_exists(w) ==
    To([w EXCEPT !.r.voted = w.r.u \in VotesIn(w.db, w.r.kind, w.r.pk)], "vote_toggle")

\* obj.votes.remove(user) / obj.votes.add(user)
vote_toggle(w) ==
    LET r == w.r
        vs == ToggleVotes(VotesIn(w.db, r.kind, r.pk), r.u, r.voted)
        db == IF r.kind = "topic" THEN [w.db EXCEPT !.tvotes[r.pk] = vs]
              ELSE [w.db EXCEPT !.pvotes[r.pk] = vs]
    IN  IF ~ExistsIn(w.db, r.kind, r.pk) /\ vs # {} THEN Done(w, "error")
        ELSE To(W(db, [r EXCEPT !.voted = ~r.voted]), "vote_count")

\* obj.update_rating(): the rating is computed from the votes ...
update_rating_count(w) ==
    LET r == w.r
        n == RatingOf(VotesIn(w.db, r.kind, r.pk))
    IN  To(W(w.db, [r EXCEPT !.rating = n, !.t.rating = IF r.kind = "topic" THEN n ELSE @,
                             !.p.rating = IF r.kind = "post" THEN n ELSE @]), "vote_save")

\* ... and saved with the instance; the response carries obj.rating.
update_rating_save(w) ==
    IF w.r.kind = "topic" THEN Done(W(SaveTopic(w.db, w.r.pk, w.r.t), w.r), "json")
    ELSE IF ~TopicThere(w.db, w.r.p.topic) THEN Done(w, "error")
    ELSE Done(W(SavePost(w.db, w.r.pk, w.r.p), w.r), "json")

\* ----------------------------------------------------------- add_topic
AddTopicForm_save(db, f, u) ==
    [db EXCEPT !.topics[db.nextTopic] = NewTopic(f, u), !.nextTopic = db.nextTopic + 1]

add_topic_load(db, u, pk, valid) ==
    LET r == [ForumReq("add_topic", u, pk) EXCEPT !.valid = valid]
    IN  IF u \notin AuthUsers THEN Done(W(db, r), "login")
        ELSE IF ~ForumThere(pk) THEN Done(W(db, r), "notfound")
        ELSE IF ~Forum_has_access(pk, u) THEN Done(W(db, r), "notfound")
        ELSE IF ~Forum_can_post(pk, u) THEN Done(W(db, r), "message_redirect")
        ELSE IF ~valid THEN Done(W(db, r), "form")
        ELSE To(W(db, r), "at_save")

add_topic_save(w) ==
    Done([w EXCEPT !.db = AddTopicForm_save(w.db, w.r.pk, w.r.u)], "redirect_topic")

\* ------------------------------------------------------------ add_post
AddPostForm_save(db, pk, u, body) ==
    [db EXCEPT !.posts[db.nextPost] = NewPost(pk, u, body, db.clock + 1),
               !.clock = db.clock + 1, !.nextPost = db.nextPost + 1]

add_post_load(db, u, pk, valid, body) ==
    LET r == [TopicReq(db, "add_post", u, pk) EXCEPT !.valid = valid, !.body = body]
    IN  IF u \notin AuthUsers THEN Done(W(db, r), "login")
        ELSE IF ~r.t.exists THEN Done(W(db, r), "notfound")
        ELSE IF ~Topic_has_access(r.t, u) THEN Done(W(db, r), "notfound")
        ELSE IF ~valid THEN Done(W(db, r), "form")
        ELSE To(W(db, r), "ap_save")

add_post_save(w) ==
    IF ~TopicThere(w.db, w.r.pk) THEN Done(w, "error")
    ELSE Done([w EXCEPT !.db = AddPostForm_save(w.db, w.r.pk, w.r.u, w.r.body)], "redirect_post")

\* ---------------------------------------------------------- move_topic
move_topic_load(db, u, pk, valid, forum) ==
    LET r == [TopicReq(db, "move_topic", u, pk) EXCEPT !.valid = valid, !.forum = forum]
    IN  IF u \notin AuthUsers THEN Done(W(db, r), "login")
        ELSE IF ~r.t.exists THEN Done(W(db, r), "notfound")
        ELSE IF ~Topic_can_edit(r.t, u) THEN Done(W(db, r), "notfound")
        ELSE IF ~valid THEN Done(W(db, r), "form")
        ELSE To(W(db, [r EXCEPT !.t.forum = forum]), "mv_save")

move_topic_save(w) == Done([w EXCEPT !.db = SaveTopic(w.db, w.r.pk, w.r.t)], "redirect_topic")

\* ----------------------------------------------------------- edit_post
\* cached: whether Post.can_edit has fetched post.topic, which the handler
\* itself does not before it answers from it.
edit_post_load(db, u, pk, valid, body, cached) ==
    LET r == [PostReq(db, "edit_post", u, pk) EXCEPT !.valid = valid, !.body = body,
                                                     !.cached = cached]
        at == db.clock + 1
    IN  IF u \notin AuthUsers THEN Done(W(db, r), "login")
        ELSE IF ~r.p.exists THEN Done(W(db, r), "notfound")
        ELSE IF ~Post_can_edit(r.p, u)
             THEN IF cached THEN Done(W(db, r), "message_redirect")
                  ELSE To(W(db, r), "ep_refused")
        ELSE IF ~valid
             THEN IF cached THEN Done(W(db, r), "form") ELSE To(W(db, r), "ep_form")
        ELSE To(W([db EXCEPT !.clock = at],
                  [r EXCEPT !.p.body = body, !.p.updated = at, !.p.updated_by = u]),
                "ep_save")

\* redirect(post.topic): post.topic is fetched here
edit_post_refused(w) ==
    IF TopicThere(w.db, w.r.p.topic) THEN Done(w, "message_redirect") ELSE Done(w, "error")

\* 'topic': post.topic, 'forum': post.topic.forum: post.topic is fetched here
edit_post_form(w) ==
    IF TopicThere(w.db, w.r.p.topic) THEN Done(w, "form") ELSE Done(w, "error")

\* post.save()
edit_post_save(w) ==
    IF ~TopicThere(w.db, w.r.p.topic) THEN Done(w, "error")
    ELSE Done([w EXCEPT !.db = SavePost(w.db, w.r.pk, w.r.p)], "redirect_post")

\* ----------------------------------------------- subscribe, unsubscribe
subscribe_load(db, h, u, pk) ==
    LET r == TopicReq(db, h, u, pk)
    IN  IF u \notin AuthUsers THEN Done(W(db, r), "login")
        ELSE IF ~r.t.exists \/ r.t.user # u THEN Done(W(db, r), "notfound")
        ELSE To(W(db, [r EXCEPT !.t.send_response = (h = "subscribe")]), "sub_save")

subscribe_save(w) == Done([w EXCEPT !.db = SaveTopic(w.db, w.r.pk, w.r.t)], "redirect_topic")

\* ------------------------------------------------- moderation toggles
mark_heresy(t) == [t EXCEPT !.heresy = TRUE]

unmark_heresy(t) == [t EXCEPT !.heresy = FALSE]

Topic_close(t) == [t EXCEPT !.closed = TRUE]

Topic_open(t) == [t EXCEPT !.closed = FALSE]

stick(t) == [t EXCEPT !.sticky = TRUE]

unstick(t) == [t EXCEPT !.sticky = FALSE]

heresy_toggled(t) == IF t.heresy THEN unmark_heresy(t) ELSE mark_heresy(t)

\* close_open_topic with its open branch lost.
close_only_closes(t) == Topic_close(t)

close_toggled(t) == IF t.closed THEN Topic_open(t) ELSE Topic_close(t)

stick_toggled(t) == IF t.sticky THEN unstick(t) ELSE stick(t)

toggle_load(db, h, u, pk) ==
    LET r == TopicReq(db, h, u, pk)
        t == IF h = "heresy_unheresy_topic" THEN heresy_toggled(r.t)
             ELSE IF h = "close_open_topic" THEN close_toggled(r.t)
             ELSE stick_toggled(r.t)
    IN  IF u \notin AuthUsers THEN Done(W(db, r), "login")
        ELSE IF ~r.t.exists THEN Done(W(db, r), "notfound")
        ELSE IF ~Topic_can_edit(r.t, u) THEN Done(W(db, r), "forbidden")
        ELSE To(W(db, [r EXCEPT !.t = t]), "tg_save")

toggle_save(w) == Done([w EXCEPT !.db = SaveTopic(w.db, w.r.pk, w.r.t)], "redirect_topic")

\* -------------------------------------------------------- delete_topic
Topic_delete(db, pk) ==
    [db EXCEPT !.topics[pk] = NoTopic,
               !.tvotes[pk] = {},
               !.posts = [p \in PostIds |-> IF db.posts[p].topic = pk THEN NoPost ELSE db.posts[p]],
               !.pvotes = [p \in PostIds |-> IF db.posts[p].topic = pk THEN {} ELSE db.pvotes[p]],
               !.markers = [u \in AuthUsers |-> [db.markers[u] EXCEPT ![pk] = 0]]]

\* delete_topic with its method test lost.
delete_anyway(method) == TRUE

\* if request.method == 'POST'
delete_topic_deletes(method) == method = "POST"

delete_topic_load(db, u, pk, method) ==
    LET r == [TopicReq(db, "delete_topic", u, pk) EXCEPT !.method = method]
    IN  IF u \notin AuthUsers THEN Done(W(db, r), "login")
        ELSE IF ~r.t.exists THEN Done(W(db, r), "notfound")
        ELSE IF ~Topic_can_delete(r.t, u) THEN Done(W(db, r), "forbidden")
        ELSE IF ~delete_topic_deletes(method) THEN Done(W(db, r), "redirect_forum")
        ELSE To(W(db, r), "dt_delete")

delete_topic_delete(w) == Done([w EXCEPT !.db = Topic_delete(w.db, w.r.pk)], "redirect_forum")

\* --------------------------------------------------------- delete_post
Post_delete(db, pk) == [db EXCEPT !.posts[pk] = NoPost, !.pvotes[pk] = {}]

\* cached: whether Post.can_delete has fetched post.topic, which the handler
\* itself does not before its except block.
delete_post_load(db, u, pk, cached) ==
    LET r == [PostReq(db, "delete_post", u, pk) EXCEPT !.cached = cached]
    IN  IF u \notin AuthUsers THEN Done(W(db, r), "login")
        ELSE IF ~r.p.exists THEN Done(W(db, r), "notfound")
        ELSE IF ~Post_can_delete(r.p, u) THEN Done(W(db, r), "forbidden")
        ELSE To(W(db, r), "dp_delete")

delete_post_delete(w) == To([w EXCEPT !.db = Post_delete(w.db, w.r.pk)], "dp_redirect")

\* try: return redirect(Topic.objects.get(pk=post.topic_id))
delete_post_redirect(w) ==
    IF TopicThere(w.db, w.r.p.topic) THEN Done(w, "redirect_topic") ELSE To(w, "dp_forum")

\* except Topic.DoesNotExist: return redirect(post.topic.forum).  post.topic
\* is fetched here unless it has been: a second read, which finds the topic
\* only when a save has put the row back since the first; when it finds
\* none, Topic.DoesNotExist is raised again and nothing catches it.
delete_post_forum(w) ==
    IF w.r.cached \/ TopicThere(w.db, w.r.p.topic) THEN Done(w, "redirect_forum")
    ELSE Done(w, "error")

\* ------------------------------------------------- mark_read_all, _forum
LastForum == CHOOSE f \in ForumIds : \A g \in ForumIds : g <= f

Forum_mark_read(db, f, u) ==
    [db EXCEPT !.markers[u] =
                   [t \in TopicIds |->
                       IF db.topics[t].exists /\ db.topics[t].forum = f
                          /\ Topic_has_access(db.topics[t], u)
                       THEN db.clock + 1 ELSE db.markers[u][t]],
               !.clock = db.clock + 1]

mark_read_if_access(db, f, u) == IF Forum_has_access(f, u) THEN Forum_mark_read(db, f, u) ELSE db

\* mark_read_all with its return inside the loop.
loop_returns_early(f) == TRUE

\* The loop over Forum.objects.all() ends after the last forum.
loop_ends(f) == f = LastForum

mark_read_all_load(db, u) ==
    LET r == ForumReq("mark_read_all", u, 0)
    IN  IF u \notin AuthUsers THEN Done(W(db, r), "login")
        ELSE To(W(db, [r EXCEPT !.idx = 1]), "mra_forum")

\* one round of: for forum in Forum.objects.all()
mark_read_all_forum(w) ==
    LET marked == [w EXCEPT !.db = mark_read_if_access(w.db, w.r.idx, w.r.u)]
    IN  IF loop_ends(w.r.idx) THEN Done(marked, "redirect_index")
        ELSE [marked EXCEPT !.r.idx = w.r.idx + 1]

mark_read_forum_load(db, u, pk) ==
    LET r == ForumReq("mark_read_forum", u, pk)
    IN  IF u \notin AuthUsers THEN Done(W(db, r), "login")
        ELSE IF ~ForumThere(pk) THEN Done(W(db, r), "notfound")
        ELSE To(W(db, r), "mrf_mark")

mark_read_forum_mark(w) ==
    Done([w EXCEPT !.db = mark_read_if_access(w.db, w.r.pk, w.r.u)], "redirect_forum")

\* ------------------------------------------------------ unread topics
LastPostIn(ps, t) ==
    LET times == {ps[p].created : p \in {q \in PostIds : ps[q].exists /\ ps[q].topic = t}}
    IN  IF times = {} THEN 0 ELSE CHOOSE m \in times : \A x \in times : x <= m

IsRead(mk, ps, u, t) == mk[u][t] # 0 /\ mk[u][t] >= LastPostIn(ps, t)

unread(db, u) ==
    {t \in TopicIds : db.topics[t].exists /\ Topic_has_access(db.topics[t], u)
                      /\ ~IsRead(db.markers, db.posts, u, t)}

unread_count(db, u) == Cardinality(unread(db, u))

\* ------------------------------------------------------- request frame
\* The next statement of a request that has been started.
Statement(w) ==
    CASE w.r.pc = "tp_update" -> topic_page_update(w)
      [] w.r.pc = "tp_render" -> topic_page_render(w)
      [] w.r.pc = "vote_exists" -> vote_exists(w)
      [] w.r.pc = "vote_toggle" -> vote_toggle(w)
      [] w.r.pc = "vote_count" -> update_rating_count(w)
      [] w.r.pc = "vote_save" -> update_rating_save(w)
      [] w.r.pc = "at_save" -> add_topic_save(w)
      [] w.r.pc = "ap_save" -> add_post_save(w)
      [] w.r.pc = "mv_save" -> move_topic_save(w)
      [] w.r.pc = "ep_refused" -> edit_post_refused(w)
      [] w.r.pc = "ep_form" -> edit_post_form(w)
      [] w.r.pc = "ep_save" -> edit_post_save(w)
      [] w.r.pc = "sub_save" -> subscribe_save(w)
      [] w.r.pc = "tg_save" -> toggle_save(w)
      [] w.r.pc = "dt_delete" -> delete_topic_delete(w)
      [] w.r.pc = "dp_delete" -> delete_post_delete(w)
      [] w.r.pc = "dp_redirect" -> delete_post_redirect(w)
      [] w.r.pc = "dp_forum" -> delete_post_forum(w)
      [] w.r.pc = "mra_forum" -> mark_read_all_forum(w)
      [] w.r.pc = "mrf_mark" -> mark_read_forum_mark(w)

RECURSIVE Run(_)
Run(w) == IF w.r.pc = "done" THEN w ELSE Run(Statement(w))

Busy == {s \in Slots : reqs[s].pc # "idle"}

Quiet == Busy = {}

FreeSlot == CHOOSE s \in Slots : reqs[s].pc = "idle" /\ \A s2 \in Slots : s2 < s => reqs[s2].pc # "idle"

Commit(db) ==
    /\ topics' = db.topics
    /\ posts' = db.posts
    /\ tvotes' = db.tvotes
    /\ pvotes' = db.pvotes
    /\ markers' = db.markers
    /\ clock' = db.clock
    /\ nextPost' = db.nextPost
    /\ nextTopic' = db.nextTopic

\* A request arrives, its handler's first statement having produced w0.  With
\* one worker the handler runs to its response; with more it is left in a
\* free slot when it has statements to go.
Serve(w0) ==
    /\ nreq < (IF workers = 1 THEN MaxRequests ELSE workers)
    /\ Cardinality(Busy) < workers
    /\ LET w == IF workers = 1 THEN Run(w0) ELSE w0
       IN  /\ Commit(w.db)
           /\ IF w.r.pc = "done"
              THEN last' = Answer(w.r) /\ UNCHANGED reqs
              ELSE reqs' = [reqs EXCEPT ![FreeSlot] = w.r] /\ UNCHANGED last
    /\ nreq' = nreq + 1
    /\ viewed' = IF w0.r.h = "topic_page" /\ w0.r.pc # "done"
                 THEN [viewed EXCEPT ![w0.r.pk] = @ + 1] ELSE viewed
    /\ onlyVotes' = (onlyVotes /\ w0.r.h = "vote")
    /\ UNCHANGED workers

\* One statement of a request in flight.
Step(s) ==
    /\ reqs[s].pc # "idle"
    /\ LET w == Statement(W(DB, reqs[s]))
       IN  /\ Commit(w.db)
           /\ IF w.r.pc = "done"
              THEN last' = Answer(w.r) /\ reqs' = [reqs EXCEPT ![s] = Idle]
              ELSE reqs' = [reqs EXCEPT ![s] = w.r] /\ UNCHANGED last
    /\ UNCHANGED <<nreq, workers, viewed, onlyVotes>>

\* ------------------------------------------------------------ handlers
topic_page(u, pk) == Serve(topic_page_load(DB, u, pk))

vote(u, kind, pk) == Serve(vote_load(DB, u, kind, pk))

PendingTopics == Cardinality({s \in Slots : reqs[s].pc = "at_save"})

add_topic(u, pk, valid) ==
    /\ nextTopic + PendingTopics <= MaxTopics
    /\ Serve(add_topic_load(DB, u, pk, valid))

PendingPosts == Cardinality({s \in Slots : reqs[s].pc = "ap_save"})

add_post(u, pk, valid, body) ==
    /\ nextPost + PendingPosts <= MaxPosts
    /\ Serve(add_post_load(DB, u, pk, valid, body))

move_topic(u, pk, valid, forum) == Serve(move_topic_load(DB, u, pk, valid, forum))

edit_post(u, pk, valid, body, cached) ==
    Serve(edit_post_load(DB, u, pk, valid, body, cached))

subscribe(u, pk) == Serve(subscribe_load(DB, "subscribe", u, pk))

unsubscribe(u, pk) == Serve(subscribe_load(DB, "unsubscribe", u, pk))

heresy_unheresy_topic(u, pk) == Serve(toggle_load(DB, "heresy_unheresy_topic", u, pk))

close_open_topic(u, pk) == Serve(toggle_load(DB, "close_open_topic", u, pk))

stick_unstick_topic(u, pk) == Serve(toggle_load(DB, "stick_unstick_topic", u, pk))

delete_topic(u, pk, method) == Serve(delete_topic_load(DB, u, pk, method))

delete_post(u, pk, cached) == Serve(delete_post_load(DB, u, pk, cached))

mark_read_all(u) == Serve(mark_read_all_load(DB, u))

mark_read_forum(u, pk) == Serve(mark_read_forum_load(DB, u, pk))

\* Every request a client can send about the topics T and the posts P.
Requests(T, P) ==
    \/ \E u \in Users, pk \in T : topic_page(u, pk)
    \/ \E u \in Users, pk \in T : vote(u, "topic", pk)
    \/ \E u \in Users, pk \in P : vote(u, "post", pk)
    \/ \E u \in Users, pk \in T : add_post(u, pk, FALSE, "")
    \/ \E u \in Users, pk \in T, b \in Bodies : add_post(u, pk, TRUE, b)
    \/ \E u \in Users, pk \in T : move_topic(u, pk, FALSE, 0)
    \/ \E u \in Users, pk \in T, f \in ForumIds : move_topic(u, pk, TRUE, f)
    \/ \E u \in Users, pk \in P, cached \in BOOLEAN : edit_post(u, pk, FALSE, "", cached)
    \/ \E u \in Users, pk \in P, b \in Bodies, cached \in BOOLEAN :
           edit_post(u, pk, TRUE, b, cached)
    \/ \E u \in Users, pk \in T : subscribe(u, pk)
    \/ \E u \in Users, pk \in T : unsubscribe(u, pk)
    \/ \E u \in Users, pk \in T : heresy_unheresy_topic(u, pk)
    \/ \E u \in Users, pk \in T : close_open_topic(u, pk)
    \/ \E u \in Users, pk \in T : stick_unstick_topic(u, pk)
    \/ \E u \in Users, pk \in T, m \in Methods : delete_topic(u, pk, m)
    \/ \E u \in Users, pk \in P, cached \in BOOLEAN : delete_post(u, pk, cached)
    \/ \E u \in Users : mark_read_all(u)
    \/ \E u \in Users, pk \in ForumPks : mark_read_forum(u, pk)
    \/ \E u \in Users, pk \in ForumPks, valid \in BOOLEAN : add_topic(u, pk, valid)

Next == Requests(TopicIds, PostIds)

\* A burst of requests about one topic and the posts in it.
BurstTopics == {1}
BurstPosts == PostIds \ {2}

NextConc == Requests(BurstTopics, BurstPosts) \/ \E s \in Slots : Step(s)

Spec == Init /\ [][Next]_vars

SpecConc == InitConc /\ [][NextConc]_vars

\* ================================================================ claims
\* The rating stored with a votable row.
RatingIn(db, kind, pk) == IF kind = "topic" THEN db.topics[pk].rating ELSE db.posts[pk].rating

\* The topic a votable row belongs to.
TopicOf(db, kind, pk) == IF kind = "topic" THEN db.topics[pk] ELSE db.topics[db.posts[pk].topic]

Kinds == {"topic", "post"}

Pks(kind) == IF kind = "topic" THEN TopicIds ELSE PostIds

\* A request by u to a handler that touches topic pk, or a post in it.
TouchesTopic(u, pk) ==
    \/ topic_page(u, pk)
    \/ vote(u, "topic", pk)
    \/ \E p \in PostIds : posts[p].topic = pk /\ vote(u, "post", p)
    \/ add_post(u, pk, FALSE, "")
    \/ \E b \in Bodies : add_post(u, pk, TRUE, b)
    \/ move_topic(u, pk, FALSE, 0)
    \/ \E f \in ForumIds : move_topic(u, pk, TRUE, f)
    \/ heresy_unheresy_topic(u, pk)
    \/ close_open_topic(u, pk)
    \/ stick_unstick_topic(u, pk)
    \/ \E m \in Methods : delete_topic(u, pk, m)

\* C1: a user without has_access on a topic gets NotFound, never Forbidden,
\* from every handler that touches the topic or a post in it, and the
\* database stays as it was (the login redirect of an anonymous user, who
\* never reaches the handler, aside).
C1_NoAccessIsNotFound ==
    [][\A u \in Users, pk \in TopicIds :
           (topics[pk].exists /\ ~Topic_has_access(topics[pk], u)
            /\ TouchesTopic(u, pk) /\ last'.out # "login") =>
               (last'.out = "notfound" /\ UNCHANGED dbvars)]_vars

\* C2: two votes in a row by the same user on a row they can see put the
\* votes and the rating back, the second answering voted=false when the
\* user had not voted at first; another user's vote after them answers
\* voted=true and raises the rating by that one vote.
C2_DoubleVoteRestores ==
    \A kind \in Kinds : \A pk \in Pks(kind) : \A u \in AuthUsers :
        (ExistsIn(DB, kind, pk) /\ Topic_has_access(TopicOf(DB, kind, pk), u)) =>
            LET w1 == Run(vote_load(DB, u, kind, pk))
                w2 == Run(vote_load(w1.db, u, kind, pk))
            IN  /\ w1.r.out = "json" /\ w2.r.out = "json"
                /\ w1.r.voted = (u \notin VotesIn(DB, kind, pk))
                /\ VotesIn(w2.db, kind, pk) = VotesIn(DB, kind, pk)
                /\ RatingIn(w2.db, kind, pk) = RatingIn(DB, kind, pk)
                /\ w2.r.rating = RatingIn(DB, kind, pk)
                /\ w2.db = DB
                /\ (u \notin VotesIn(DB, kind, pk) => ~w2.r.voted)
                /\ \A b \in AuthUsers \ {u} :
                       (Topic_has_access(TopicOf(DB, kind, pk), b)
                        /\ b \notin VotesIn(w2.db, kind, pk)) =>
                           LET w3 == Run(vote_load(w2.db, b, kind, pk))
                           IN  /\ w3.r.out = "json" /\ w3.r.voted
                               /\ w3.r.rating = RatingIn(w2.db, kind, pk) + 1
                               /\ RatingIn(w3.db, kind, pk) = w3.r.rating
                               /\ VotesIn(w3.db, kind, pk) = VotesIn(w2.db, kind, pk) \cup {b}

\* A second vote has just taken a user's vote back: nobody has a vote left
\* on post 1 and its rating is 0 again.
C2_Witness ==
    /\ last.out = "json" /\ ~last.voted /\ last.rating = 0
    /\ pvotes[1] = {} /\ posts[1].exists /\ posts[1].rating = 0
    /\ \A t \in TopicIds : tvotes[t] = {}
    /\ \A p \in PostIds : pvotes[p] = {}

\* C3: once every one of a burst of vote requests has been answered, the
\* stored rating of each row is the rating of its votes.
C3_RatingMatchesVotes ==
    (Quiet /\ onlyVotes) =>
        \A kind \in Kinds : \A pk \in Pks(kind) :
            ExistsIn(DB, kind, pk) => RatingIn(DB, kind, pk) = RatingOf(VotesIn(DB, kind, pk))

\* C4: once every request has been answered, a topic's view counter is its
\* initial value plus the topic_page requests that passed has_access.
C4_ViewsCountRequests ==
    Quiet => \A t \in TopicIds : topics[t].exists => topics[t].views = viewed[t]

\* C5: a moderation handler called by a user with can_edit negates its own
\* flag and leaves everything else as it was; called twice in a row it
\* puts the topic back.
C5_ToggleFlipsOwnFlag ==
    \A u \in AuthUsers, pk \in TopicIds :
        (topics[pk].exists /\ Topic_can_edit(topics[pk], u)) =>
            LET he == Run(toggle_load(DB, "heresy_unheresy_topic", u, pk))
                cl == Run(toggle_load(DB, "close_open_topic", u, pk))
                st == Run(toggle_load(DB, "stick_unstick_topic", u, pk))
            IN  /\ he.r.out = "redirect_topic"
                /\ he.db = [DB EXCEPT !.topics[pk].heresy = ~topics[pk].heresy]
                /\ cl.r.out = "redirect_topic"
                /\ cl.db = [DB EXCEPT !.topics[pk].closed = ~topics[pk].closed]
                /\ st.r.out = "redirect_topic"
                /\ st.db = [DB EXCEPT !.topics[pk].sticky = ~topics[pk].sticky]
                /\ Run(toggle_load(he.db, "heresy_unheresy_topic", u, pk)).db = DB
                /\ Run(toggle_load(cl.db, "close_open_topic", u, pk)).db = DB
                /\ Run(toggle_load(st.db, "stick_unstick_topic", u, pk)).db = DB

\* Two toggles have set closed and sticky of topic 1, each leaving the other's
\* flag and heresy as they were.
C5_Witness ==
    /\ last.out = "redirect_topic"
    /\ topics[1].exists /\ ~topics[1].heresy /\ topics[1].closed /\ topics[1].sticky
    /\ topics[1] = [InitTopics[1] EXCEPT !.closed = TRUE, !.sticky = TRUE]

\* C6: a user for whom Topic.can_post is false adds no Post with add_post,
\* whatever the form.
C6_NoPostWithoutCanPost ==
    [][\A u \in AuthUsers, pk \in TopicIds, b \in Bodies :
           (topics[pk].exists /\ ~Topic_can_post(topics[pk], u)
            /\ add_post(u, pk, TRUE, b)) => posts' = posts]_vars

\* C7: delete_topic removes the topic and its posts only for an authenticated
\* user with can_delete sending a POST; with can_delete and another method it
\* redirects to the forum and changes nothing; without can_delete it answers
\* Forbidden and changes nothing.
C7_DeleteTopicGuarded ==
    \A u \in Users, pk \in TopicIds, m \in Methods :
        topics[pk].exists =>
            LET w == Run(delete_topic_load(DB, u, pk, m))
                may == u \in AuthUsers /\ Topic_can_delete(topics[pk], u)
            IN  /\ (may /\ m = "POST") =>
                       /\ w.r.out = "redirect_forum"
                       /\ ~w.db.topics[pk].exists
                       /\ \A p \in PostIds : ~(w.db.posts[p].exists /\ w.db.posts[p].topic = pk)
                       /\ \A t \in TopicIds \ {pk} : w.db.topics[t] = topics[t]
                /\ (may /\ m # "POST") => (w.r.out = "redirect_forum" /\ w.db = DB)
                /\ (u \in AuthUsers /\ ~Topic_can_delete(topics[pk], u)) =>
                       (w.r.out = "forbidden" /\ w.db = DB)
                /\ u \notin AuthUsers => (w.r.out = "login" /\ w.db = DB)

\* A POST by a user with can_delete has removed topic 1 and its post.
C7_Witness ==
    /\ last.out = "redirect_forum"
    /\ ~topics[1].exists /\ ~posts[1].exists /\ topics[2].exists

\* A request by u to an edit-gated handler of topic pk.
EditsTopic(u, pk) ==
    \/ move_topic(u, pk, FALSE, 0)
    \/ \E f \in ForumIds : move_topic(u, pk, TRUE, f)
    \/ heresy_unheresy_topic(u, pk)
    \/ close_open_topic(u, pk)
    \/ stick_unstick_topic(u, pk)

EditsPost(u, pk) ==
    \/ \E cached \in BOOLEAN : edit_post(u, pk, FALSE, "", cached)
    \/ \E b \in Bodies, cached \in BOOLEAN : edit_post(u, pk, TRUE, b, cached)

\* C8: an authenticated user who sees a topic or post but has no can_edit on
\* it gets a Forbidden answer (hard, or a message and a redirect), never
\* NotFound, from every edit-gated handler, and the database stays as it was.
C8_NoEditIsForbidden ==
    [][/\ \A u \in AuthUsers, pk \in TopicIds :
              (topics[pk].exists /\ Topic_has_access(topics[pk], u)
               /\ ~Topic_can_edit(topics[pk], u) /\ EditsTopic(u, pk)) =>
                  (last'.out \in {"forbidden", "message_redirect"} /\ UNCHANGED dbvars)
       /\ \A u \in AuthUsers, pk \in PostIds :
              (posts[pk].exists /\ Topic_has_access(topics[posts[pk].topic], u)
               /\ ~Post_can_edit(posts[pk], u) /\ EditsPost(u, pk)) =>
                  (last'.out \in {"forbidden", "message_redirect"} /\ UNCHANGED dbvars)]_vars

\* C9: delete_post by a user with can_delete is never refused, removes the
\* post, and answers with a redirect, never an error: to the topic when the
\* topic is there as the handler looks for it, to the forum when it is gone.
C9_DeletePostRedirects ==
    /\ [](\A u \in AuthUsers, pk \in PostIds, cached \in BOOLEAN :
              (posts[pk].exists /\ Post_can_delete(posts[pk], u)) =>
                  delete_post_load(DB, u, pk, cached).r.pc = "dp_delete")
    /\ [][\A s \in Slots :
              reqs[s].h = "delete_post" =>
                  /\ (reqs[s].pc = "dp_delete" /\ reqs'[s] # reqs[s]) =>
                         (~posts'[reqs[s].pk].exists /\ reqs'[s].pc = "dp_redirect")
                  /\ (reqs[s].pc = "dp_redirect" /\ reqs'[s] # reqs[s]) =>
                         IF topics[reqs[s].p.topic].exists
                         THEN reqs'[s].pc = "idle" /\ last'.out = "redirect_topic"
                         ELSE reqs'[s].pc = "dp_forum"
                  /\ (reqs[s].pc = "dp_forum" /\ reqs'[s] # reqs[s]) =>
                         (reqs'[s].pc = "idle" /\ last'.out = "redirect_forum")]_vars

\* C10: mark_read_all leaves every topic the user has access to read, so
\* that unread is empty and unread_count is 0; mark_read_forum does so for
\* one forum; neither touches a marker of a topic the user has no access
\* to, nor of another user; and a read topic stays read until a post is
\* added to it.
C10_MarkReadAll ==
    /\ [](\A u \in AuthUsers :
              LET w == Run(mark_read_all_load(DB, u))
              IN  /\ w.r.out = "redirect_index"
                  /\ \A t \in TopicIds :
                         IF topics[t].exists /\ Topic_has_access(topics[t], u)
                         THEN IsRead(w.db.markers, w.db.posts, u, t)
                         ELSE w.db.markers[u][t] = markers[u][t]
                  /\ unread(w.db, u) = {} /\ unread_count(w.db, u) = 0
                  /\ \A v \in AuthUsers \ {u} : w.db.markers[v] = markers[v]
                  /\ w.db.topics = topics /\ w.db.posts = posts)
    /\ [](\A u \in AuthUsers, f \in ForumIds :
              LET w == Run(mark_read_forum_load(DB, u, f))
              IN  /\ w.r.out = "redirect_forum"
                  /\ \A t \in TopicIds :
                         IF topics[t].exists /\ topics[t].forum = f
                            /\ Topic_has_access(topics[t], u)
                         THEN IsRead(w.db.markers, w.db.posts, u, t)
                         ELSE w.db.markers[u][t] = markers[u][t]
                  /\ \A v \in AuthUsers \ {u} : w.db.markers[v] = markers[v]
                  /\ w.db.topics = topics /\ w.db.posts = posts)
    /\ [][\A u \in AuthUsers, t \in TopicIds :
              (IsRead(markers, posts, u, t) /\ topics'[t].exists
               /\ LastPostIn(posts', t) <= LastPostIn(posts, t)) =>
                  IsRead(markers', posts', u, t)]_vars

\* mark_read_all by the moderator has marked both topics, and no marker
\* exists for alice on the topic of the forum she has no access to.
C10_Witness ==
    /\ last.out = "redirect_index"
    /\ markers["mod"][1] # 0 /\ markers["mod"][2] # 0
    /\ unread(DB, "mod") = {}
    /\ markers["alice"][2] = 0 /\ markers["bob"][1] = 0
====
